---- MODULE Spec2Model ----
(***************************************************************************)
(* Knowledge-graph builder: ingestion pipeline (normalise, chunk, extract  *)
(* concepts, aggregate co-occurrences, persist), hybrid retrieval and      *)
(* answer composition, modelled from src/backend/*.py.                     *)
(*                                                                         *)
(* Text is a sequence of characters.  A character is a letter (standing    *)
(* for one noun-phrase span of the tagger), a blank, or a control          *)
(* character.  Weights are exact rationals kept as integer multiples of    *)
(* 1/WeightScale, fused scores as integer multiples of 1/AlphaDen; the     *)
(* rounding of the store's floating point additions is not modelled.       *)
(***************************************************************************)
EXTENDS Integers, Sequences, FiniteSets, TLC

VARIABLES store, ingest, hist, chunker, aggregator, order, search, qa, detector, conn

vars == <<store, ingest, hist, chunker, aggregator, order, search, qa, detector, conn>>

(***************************************************************************)
(* Bounds of the model                                                     *)
(***************************************************************************)
MaxTextLen == 5        \* longest text handed to chunk_text on its own
MaxWindow == 3         \* largest chunk window W tried for chunk_text
MaxConcepts == 4       \* longest concept list handed to the aggregator
MaxPairWindow == 5     \* largest co-occurrence window N tried
MaxScore == 2          \* largest vector or keyword score of a chunk
MaxK == 3              \* largest result count k asked for
AlphaDen == 2          \* the fusion weight alpha is a multiple of 1 / AlphaDen
MaxResults == 3        \* most chunks a retrieval returns to the answerer
MaxConceptsFound == 3  \* most concepts a context expansion returns
MaxDirect == 1         \* most calls of bump_cooccurrence made from outside an ingestion
MaxCalls == 4          \* most calls made on one Neo4jConnection

Min(a, b) == IF a < b THEN a ELSE b

RECURSIVE SumSeq(_)
SumSeq(s) == IF s = <<>> THEN 0 ELSE Head(s) + SumSeq(Tail(s))

RECURSIVE SumSet(_, _)
\* sum of f[x] over the finite set S
SumSet(f, S) ==
    IF S = {} THEN 0
    ELSE LET x == CHOOSE y \in S : TRUE IN f[x] + SumSet(f, S \ {x})

RECURSIVE SeqsUpTo(_, _)
\* all sequences over S of length 0..n
SeqsUpTo(S, n) ==
    IF n = 0 THEN {<<>>}
    ELSE LET shorter == SeqsUpTo(S, n - 1)
         IN shorter \cup {Append(s, x) : s \in {t \in shorter : Len(t) = n - 1}, x \in S}

Range(s) == {s[i] : i \in 1..Len(s)}

(***************************************************************************)
(* Characters                                                              *)
(***************************************************************************)
Letters == {"x", "y", "z", "X"}
SPACE == " "
ControlChars == {"<LF>"}          \* [\x00-\x1f\x7f-\x9f]: newline, tab, ...
Whitespace == {SPACE, "<NBSP>"}   \* \s that survives the control-character pass

(***************************************************************************)
(* nlp.clean_text                                                          *)
(***************************************************************************)
RemoveControl(text) == SelectSeq(text, LAMBDA c : c \notin ControlChars)

RECURSIVE CollapseWhitespace(_)
\* re.sub(r'\s+', ' ', text): every maximal run of whitespace becomes one blank
CollapseWhitespace(text) ==
    IF text = <<>> THEN <<>>
    ELSE IF Head(text) \in Whitespace
         THEN IF Len(text) > 1 /\ text[2] \in Whitespace
              THEN CollapseWhitespace(Tail(text))
              ELSE <<SPACE>> \o CollapseWhitespace(Tail(text))
         ELSE <<Head(text)>> \o CollapseWhitespace(Tail(text))

RECURSIVE LStrip(_)
LStrip(text) ==
    IF text # <<>> /\ Head(text) \in Whitespace THEN LStrip(Tail(text)) ELSE text

RECURSIVE RStrip(_)
RStrip(text) ==
    IF text # <<>> /\ text[Len(text)] \in Whitespace
    THEN RStrip(SubSeq(text, 1, Len(text) - 1))
    ELSE text

clean_text(text) == RStrip(LStrip(CollapseWhitespace(RemoveControl(text))))

(***************************************************************************)
(* nlp.chunk_text                                                          *)
(***************************************************************************)
ChunkEnd(start, chunk_size, len) == Min(start + chunk_size, len)

NextStartNoOverlap(end, overlap) == end

NextStart(end, overlap) == end - overlap

RECURSIVE ChunkLoop(_, _, _, _, _, _)
\* the while loop of chunk_text; text is already cleaned
ChunkLoop(text, chunk_size, overlap, start, chunk_id, chunks) ==
    IF ~(start < Len(text)) THEN chunks
    ELSE LET end == ChunkEnd(start, chunk_size, Len(text))
             chunk == [id |-> chunk_id,
                       text |-> SubSeq(text, start + 1, end),
                       start |-> start,
                       end |-> end]
         IN IF end >= Len(text) THEN Append(chunks, chunk)
            ELSE ChunkLoop(text, chunk_size, overlap, NextStart(end, overlap),
                           chunk_id + 1, Append(chunks, chunk))

chunk_text(text, chunk_size, overlap) ==
    ChunkLoop(clean_text(text), chunk_size, overlap, 0, 0, <<>>)


(***************************************************************************)
(* nlp.extract_concepts: the tagger's spans are the letters of the chunk   *)
(* text in source order; a span is normalised by lower-casing and dropped  *)
(* when its normalised form was already seen in this chunk.                *)
(***************************************************************************)
Lower(c) == IF c = "X" THEN "x" ELSE c

NounChunks(text) == SelectSeq(text, LAMBDA c : c \in Letters)

RECURSIVE ExtractLoop(_, _, _)
ExtractLoop(spans, seen_concepts, concepts) ==
    IF spans = <<>> THEN concepts
    ELSE LET normalized == Lower(Head(spans))
         IN IF normalized \notin seen_concepts
            THEN ExtractLoop(Tail(spans), seen_concepts \cup {normalized},
                             Append(concepts, [label |-> normalized, lemma |-> normalized]))
            ELSE ExtractLoop(Tail(spans), seen_concepts, concepts)

ExtractKeepRepeats(text) ==
    [i \in 1..Len(NounChunks(text)) |->
        [label |-> Lower(NounChunks(text)[i]), lemma |-> Lower(NounChunks(text)[i])]]

extract_concepts(text) == ExtractLoop(NounChunks(text), {}, <<>>)

(***************************************************************************)
(* nlp.compute_cooccurrence_pairs                                          *)
(***************************************************************************)
WeightScale == 3 * 4 * 5     \* one unit of weight; divisible by every distance used
WINDOW_SIZE == 5             \* default window_size

PairWeightFlat(i, j) == WeightScale

PairWeight(i, j) == WeightScale \div (IF j - i < 0 THEN i - j ELSE j - i)

InnerStopWide(i, window_size, len) == len

\* last j of range(i + 1, min(i + window_size, len)), positions counted from 1
InnerStop(i, window_size, len) == Min(i + window_size - 1, len)

DifferUnchecked(concept1, concept2) == TRUE

\* if concept1 != concept2
Differ(concept1, concept2) == concept1 # concept2

RECURSIVE PairLoop(_, _, _, _, _)
PairLoop(concepts, window_size, i, j, pairs) ==
    IF i > Len(concepts) THEN pairs
    ELSE IF j > InnerStop(i, window_size, Len(concepts))
         THEN PairLoop(concepts, window_size, i + 1, i + 2, pairs)
         ELSE PairLoop(concepts, window_size, i, j + 1,
                       IF Differ(concepts[i], concepts[j])
                       THEN Append(pairs, <<concepts[i], concepts[j], PairWeight(i, j)>>)
                       ELSE pairs)

compute_cooccurrence_pairs(concepts, window_size) ==
    PairLoop(concepts, window_size, 1, 2, <<>>)

(***************************************************************************)
(* neo4j_store.Neo4jStore: the graph.  A node set is a function from the   *)
(* MERGE key to the node's properties; every method below is one           *)
(* auto-commit query and so one atomic transition of the store.            *)
(***************************************************************************)
EmptyFcn == [k \in {} |-> 0]

Put(f, k, v) == [x \in DOMAIN f \cup {k} |-> IF x = k THEN v ELSE f[x]]

NULL == "null"

EmptyStore ==
    [documents |-> EmptyFcn,    \* Document.id -> type, name, url, bytes
     chunks    |-> EmptyFcn,    \* Chunk.id -> text, start, end, docId, embedding
     has_chunk |-> {},          \* (Document)-[:HAS_CHUNK]->(Chunk)
     concepts  |-> EmptyFcn,    \* Concept.label -> id, lemma, freq, embedding, community
     mentions  |-> {},          \* (Chunk)-[:MENTIONS]->(Concept)
     co_occurs |-> EmptyFcn]    \* <<k1.label, k2.label>> as created -> weight

upsert_document(s, doc_id, doc_type, name, url, bytes_size) ==
    [s EXCEPT !.documents =
        Put(@, doc_id, [type |-> doc_type, name |-> name, url |-> url, bytes |-> bytes_size])]

\* CREATE in place of MERGE: a node is added whatever the store holds
create_chunk_with_embedding(s, chunk_id, text, start, end, doc_id, embedding) ==
    LET fresh == <<chunk_id[1], chunk_id[2] + 100 * Cardinality(DOMAIN s.chunks)>>
    IN [s EXCEPT
        !.chunks = Put(@, fresh, [text |-> text, start |-> start, end |-> end,
                                  docId |-> doc_id, embedding |-> embedding]),
        !.has_chunk = IF doc_id \in DOMAIN s.documents
                      THEN @ \cup {<<doc_id, fresh>>} ELSE @]

upsert_chunk_with_embedding(s, chunk_id, text, start, end, doc_id, embedding) ==
    [s EXCEPT
        !.chunks = Put(@, chunk_id, [text |-> text, start |-> start, end |-> end,
                                     docId |-> doc_id, embedding |-> embedding]),
        !.has_chunk = IF doc_id \in DOMAIN s.documents
                      THEN @ \cup {<<doc_id, chunk_id>>} ELSE @]

FreqOverwrite(old, freq) == freq

\* k.freq = COALESCE(k.freq, 0) + $freq
FreqAfter(old, freq) == old + freq

\* a Concept node on which no community property has been set
NoCommunity == -1

upsert_concept(s, concept_id, label, lemma, freq, embedding) ==
    LET old == IF label \in DOMAIN s.concepts THEN s.concepts[label].freq ELSE 0
        community == IF label \in DOMAIN s.concepts
                     THEN s.concepts[label].community ELSE NoCommunity
    IN [s EXCEPT !.concepts =
            Put(@, label, [id |-> concept_id, lemma |-> lemma,
                           freq |-> FreqAfter(old, freq),
                           embedding |-> embedding, community |-> community])]

link_mentions(s, chunk_id, concept_label) ==
    IF chunk_id \in DOMAIN s.chunks /\ concept_label \in DOMAIN s.concepts
    THEN [s EXCEPT !.mentions = @ \cup {<<chunk_id, concept_label>>}]
    ELSE s

WeightOverwrite(old, weight) == weight

\* r.weight = COALESCE(r.weight, 0) + $weight
WeightAfter(old, weight) == old + weight

\* the CO_OCCURS relationships between two labels, in either direction
EdgesBetween(s, label1, label2) ==
    {e \in DOMAIN s.co_occurs : e = <<label1, label2>> \/ e = <<label2, label1>>}

bump_cooccurrence(s, concept1_label, concept2_label, weight) ==
    IF ~(/\ concept1_label \in DOMAIN s.concepts
         /\ concept2_label \in DOMAIN s.concepts
         /\ concept1_label # concept2_label)
    THEN s
    ELSE LET found == EdgesBetween(s, concept1_label, concept2_label)
         IN IF found = {}
            THEN [s EXCEPT !.co_occurs =
                     Put(@, <<concept1_label, concept2_label>>, WeightAfter(0, weight))]
            ELSE [s EXCEPT !.co_occurs =
                     [e \in DOMAIN @ |-> IF e \in found THEN WeightAfter(@[e], weight)
                                         ELSE @[e]]]

TotalBytes(s) == SumSet([d \in DOMAIN s.documents |-> s.documents[d].bytes],
                        DOMAIN s.documents)

\* The query chains MATCH ... WITH <carried columns>, COUNT(..): a MATCH that
\* finds no Chunk, no Concept or no CO_OCCURS relationship leaves no row, the
\* result has no record and the method returns its all-zero default.
stats(s) ==
    IF DOMAIN s.chunks = {} \/ DOMAIN s.concepts = {} \/ DOMAIN s.co_occurs = {}
    THEN [docs |-> 0, chunks |-> 0, concepts |-> 0, edges |-> 0, total_bytes |-> 0]
    ELSE [docs |-> Cardinality(DOMAIN s.documents),
          chunks |-> Cardinality(DOMAIN s.chunks),
          concepts |-> Cardinality(DOMAIN s.concepts),
          edges |-> (2 * Cardinality(DOMAIN s.co_occurs)) \div 2,
          total_bytes |-> TotalBytes(s)]

(***************************************************************************)
(* ingest.IngestionService._process_content: the store calls it issues,    *)
(* in program order.  Nothing it reads from the store steers it, so the    *)
(* calls are a function of the text and the document id.                   *)
(***************************************************************************)
CHUNK_SIZE == 3        \* config.CHUNK_SIZE, in characters of the model
CHUNK_OVERLAP == 1     \* config.CHUNK_OVERLAP, in characters of the model

RECURSIVE Concat(_)
Concat(ss) == IF ss = <<>> THEN <<>> ELSE Head(ss) \o Concat(Tail(ss))

embed_chunks(chunks) ==
    [i \in 1..Len(chunks) |->
        [id |-> chunks[i].id, text |-> chunks[i].text, start |-> chunks[i].start,
         end |-> chunks[i].end, embedding |-> <<"vec", chunks[i].text>>]]

FileDocId(filename) == <<"file", filename>>      \* md5("file:" + filename)
UrlDocId(url) == <<"url", url>>                  \* md5("url:" + url)
ChunkId(doc_id, chunk) == <<doc_id, chunk.id>>   \* f"{doc_id}_{chunk['id']}"
ConceptId(label) == <<"md5", label>>             \* md5(label)

Labels(concepts) == [i \in 1..Len(concepts) |-> concepts[i].label]

\* concepts found per chunk, as extract_concepts returns them
ChunkConceptRecords(chunks) == [i \in 1..Len(chunks) |-> extract_concepts(chunks[i].text)]

RECURSIVE UniqueLoop(_, _)
\* unique_concepts: first occurrence keeps its place, later ones add 1 to freq
UniqueLoop(all_concepts, unique) ==
    IF all_concepts = <<>> THEN unique
    ELSE LET concept == Head(all_concepts)
             at == {i \in 1..Len(unique) : unique[i].label = concept.label}
         IN IF at # {}
            THEN UniqueLoop(Tail(all_concepts),
                            [i \in 1..Len(unique) |->
                                IF i \in at THEN [unique[i] EXCEPT !.freq = @ + 1]
                                ELSE unique[i]])
            ELSE UniqueLoop(Tail(all_concepts),
                            Append(unique, [label |-> concept.label,
                                            lemma |-> concept.lemma, freq |-> 1]))

UniqueConcepts(chunks) == UniqueLoop(Concat(ChunkConceptRecords(chunks)), <<>>)

ChunkOps(chunks, doc_id) ==
    [i \in 1..Len(chunks) |->
        [op |-> "upsert_chunk_with_embedding", chunk_id |-> ChunkId(doc_id, chunks[i]),
         text |-> chunks[i].text, start |-> chunks[i].start, end |-> chunks[i].end,
         doc_id |-> doc_id, embedding |-> chunks[i].embedding]]

ConceptOps(unique) ==
    [i \in 1..Len(unique) |->
        [op |-> "upsert_concept", concept_id |-> ConceptId(unique[i].label),
         label |-> unique[i].label, lemma |-> unique[i].lemma, freq |-> unique[i].freq]]

MentionOps(chunks, doc_id) ==
    Concat([i \in 1..Len(chunks) |->
        LET labels == Labels(extract_concepts(chunks[i].text))
        IN [k \in 1..Len(labels) |->
               [op |-> "link_mentions", chunk_id |-> ChunkId(doc_id, chunks[i]),
                label |-> labels[k]]]])

BumpOps(chunks) ==
    Concat([i \in 1..Len(chunks) |->
        LET concepts_in_chunk == Labels(extract_concepts(chunks[i].text))
            pairs == IF Len(concepts_in_chunk) > 1
                     THEN compute_cooccurrence_pairs(concepts_in_chunk, WINDOW_SIZE)
                     ELSE <<>>
        IN [k \in 1..Len(pairs) |->
               [op |-> "bump_cooccurrence", concept1 |-> pairs[k][1],
                concept2 |-> pairs[k][2], weight |-> pairs[k][3]]]])

ProcessChunks(text) == embed_chunks(chunk_text(text, CHUNK_SIZE, CHUNK_OVERLAP))

ProcessOps(text, doc_id) ==
    LET chunks == ProcessChunks(text)
    IN ChunkOps(chunks, doc_id) \o ConceptOps(UniqueConcepts(chunks))
       \o MentionOps(chunks, doc_id) \o BumpOps(chunks)

ProcessResult(text) ==
    LET chunks == ProcessChunks(text)
    IN [chunks_created |-> Len(chunks),
        concepts_extracted |-> Len(UniqueConcepts(chunks)),
        cooccurrences_created |-> Len(BumpOps(chunks))]

\* one store call of _process_content
ApplyOp(s, o) ==
    CASE o.op = "upsert_chunk_with_embedding" ->
            upsert_chunk_with_embedding(s, o.chunk_id, o.text, o.start, o.end,
                                        o.doc_id, o.embedding)
      [] o.op = "upsert_concept" ->
            upsert_concept(s, o.concept_id, o.label, o.lemma, o.freq, NULL)
      [] o.op = "link_mentions" -> link_mentions(s, o.chunk_id, o.label)
      [] o.op = "bump_cooccurrence" ->
            bump_cooccurrence(s, o.concept1, o.concept2, o.weight)

RECURSIVE RunOps(_, _)
RunOps(s, ops) == IF ops = <<>> THEN s ELSE RunOps(ApplyOp(s, Head(ops)), Tail(ops))

(***************************************************************************)
(* ingest.IngestionService and ingest.DocumentProcessor: two requests may  *)
(* be in flight at once; each store call and each network call is a step.  *)
(***************************************************************************)
BudgetBytes == 8       \* DATA_BUDGET_MB * 1024 * 1024, in bytes of the model
MaxUrlBytes == 4       \* MAX_URL_SIZE_MB * 1024 * 1024, in bytes of the model

Procs == {"p1", "p2"}
Other(p) == CHOOSE q \in Procs : q # p

FileNames == {"a.txt", "b.txt"}
GoodUrl == "http://site/page"
BadUrl == "ftp://site/page"
Scheme(url) == IF url = BadUrl THEN "ftp" ELSE "http"      \* urlparse(url).scheme

IngestTexts ==
    {<<>>,
     <<"x", "<LF>", "<LF>">>,
     <<"x", "y">>,
     <<"y", " ", " ", " ", " ", "x">>,
     <<"x", "X", "y", "z">>,
     <<"x", "<LF>", "z", "y">>,
     <<"x", "y", "x", "y">>}

UrlBodies ==
    {[size |-> MaxUrlBytes + 1, text |-> <<"x", "y">>],
     [size |-> 3, text |-> <<>>],
     [size |-> 3, text |-> <<"x", "y">>],
     [size |-> 4, text |-> <<"x", "X", "y", "z">>]}

FileRequests ==
    {[kind |-> "file", name |-> f, utf8 |-> TRUE, text |-> t, size |-> Len(t),
      fetch |-> "n/a"] : f \in FileNames, t \in IngestTexts}
    \cup {[kind |-> "file", name |-> f, utf8 |-> FALSE, text |-> <<>>, size |-> 2,
           fetch |-> "n/a"] : f \in FileNames}

UrlRequests ==
    {[kind |-> "url", name |-> BadUrl, utf8 |-> TRUE, text |-> <<>>, size |-> 0,
      fetch |-> "n/a"]}
    \cup {[kind |-> "url", name |-> GoodUrl, utf8 |-> TRUE, text |-> <<>>, size |-> 0,
           fetch |-> f] : f \in {"timeout", "http_error"}}
    \cup {[kind |-> "url", name |-> GoodUrl, utf8 |-> TRUE, text |-> b.text,
           size |-> b.size, fetch |-> "ok"] : b \in UrlBodies}

Requests == FileRequests \cup UrlRequests

NoRequest == [kind |-> "none", name |-> "", utf8 |-> TRUE, text |-> <<>>, size |-> 0,
              fetch |-> "n/a"]

RobotsOutcomes == {"unreachable", "absent", "allow", "disallow"}

DocId(r) == IF r.kind = "file" THEN FileDocId(r.name) ELSE UrlDocId(r.name)

NoResult == [status |-> "none", error |-> "", chunks_created |-> 0,
             concepts_extracted |-> 0, doc_id |-> <<>>, bytes_ingested |-> 0]

\* DocumentProcessor: {"status": "error", "error": str(e), ...}
ErrorResult(msg) == [NoResult EXCEPT !.status = "error", !.error = msg]

\* DocumentProcessor: {"status": "success", ...}
SuccessResult(r) ==
    [status |-> "success", error |-> "",
     chunks_created |-> ProcessResult(r.text).chunks_created,
     concepts_extracted |-> ProcessResult(r.text).concepts_extracted,
     doc_id |-> DocId(r), bytes_ingested |-> r.size]

BudgetMessage(kind) ==
    IF kind = "file" THEN "File would exceed budget" ELSE "URL would exceed budget"

ValidationMessages ==
    {"File would exceed budget", "URL would exceed budget",
     "File must be UTF-8 encoded text", "Only HTTP/HTTPS URLs are supported",
     "Failed to fetch URL", "URL content exceeds limit",
     "Could not extract text from URL"}

check_budget_unguarded(s, additional_bytes) == TRUE

check_budget(s, additional_bytes) ==
    stats(s).total_bytes + additional_bytes <= BudgetBytes

DecodeUnchecked(r) == TRUE

\* content.decode('utf-8') succeeds
DecodeOk(r) == r.utf8

SchemeUnchecked(url) == TRUE

SchemeOk(url) == Scheme(url) \in {"http", "https"}

InFlight(p) == ingest[p].pc \notin {"idle", "done"}

Unordered(a, b) == {a, b}

Lookup(f, k) == IF k \in DOMAIN f THEN f[k] ELSE 0

IdleIngest == [pc |-> "idle", req |-> NoRequest, todo |-> <<>>, result |-> NoResult]

InitHist ==
    [pre |-> [p \in Procs |-> EmptyStore],     \* the store when p was submitted (if the other was at rest)
     after |-> [p \in Procs |-> FALSE],        \* the other request had finished by then
     over |-> [p \in Procs |-> FALSE],         \* stored bytes + size > ceiling at p's check
     checked |-> [p \in Procs |-> FALSE],      \* p's check ran, with no other request in flight
     raced |-> [p \in Procs |-> 0],            \* bytes checked but not yet written by the other at p's check
     writes |-> [p \in Procs |-> 0],           \* store writes made for p
     robots |-> [p \in Procs |-> "n/a"],
     overlapped |-> FALSE,                     \* a write was made while both were in flight
     issued_freq |-> EmptyFcn,                 \* label -> sum of $freq passed to the store
     issued_weight |-> EmptyFcn]               \* {label, label} -> sum of $weight passed

IngestInit == store = EmptyStore /\ ingest = [p \in Procs |-> IdleIngest] /\ hist = InitHist

IngestVars == <<store, ingest, hist>>
PureVars == <<chunker, aggregator, order, search, qa, detector, conn>>

Finish(p, result) ==
    ingest' = [ingest EXCEPT ![p].pc = "done", ![p].todo = <<>>, ![p].result = result]

Submit(p, r) ==
    /\ ingest[p].pc = "idle"
    /\ ingest' = [ingest EXCEPT ![p] = [IdleIngest EXCEPT
                      !.pc = IF r.kind = "file" THEN "check_budget" ELSE "validate_url",
                      !.req = r]]
    /\ hist' = [hist EXCEPT !.pre[p] = IF InFlight(Other(p)) THEN EmptyStore ELSE store,
                            !.after[p] = (ingest[Other(p)].pc = "done")]
    /\ UNCHANGED <<store, PureVars>>

\* ingest_url: the scheme test
ValidateUrl(p) ==
    /\ ingest[p].pc = "validate_url"
    /\ IF SchemeOk(ingest[p].req.name)
       THEN ingest' = [ingest EXCEPT ![p].pc = "robots"]
       ELSE Finish(p, ErrorResult("Only HTTP/HTTPS URLs are supported"))
    /\ UNCHANGED <<store, hist, PureVars>>

\* ingest_url: the robots.txt request.  The ValueError raised for a disallow is
\* raised inside the try whose bare except passes, so every outcome goes on.
Robots(p, outcome) ==
    /\ ingest[p].pc = "robots"
    /\ ingest' = [ingest EXCEPT ![p].pc = "fetch"]
    /\ hist' = [hist EXCEPT !.robots[p] = outcome]
    /\ UNCHANGED <<store, PureVars>>

\* ingest_url: requests.get, raise_for_status and the size limit
Fetch(p) ==
    /\ ingest[p].pc = "fetch"
    /\ IF ingest[p].req.fetch # "ok"
       THEN Finish(p, ErrorResult("Failed to fetch URL"))
       ELSE IF ingest[p].req.size > MaxUrlBytes
            THEN Finish(p, ErrorResult("URL content exceeds limit"))
            ELSE ingest' = [ingest EXCEPT ![p].pc = "check_budget"]
    /\ UNCHANGED <<store, hist, PureVars>>

\* check_budget (one read of the store) and the checks that follow it before the
\* first write: decode for a file, text extraction for a URL
CheckBudget(p) ==
    LET r == ingest[p].req
    IN /\ ingest[p].pc = "check_budget"
       /\ hist' = [hist EXCEPT !.checked[p] = ~InFlight(Other(p)),
                               !.raced[p] = IF ingest[Other(p)].pc = "upsert_document"
                                            THEN ingest[Other(p)].req.size ELSE 0,
                               !.over[p] = (TotalBytes(store) + r.size > BudgetBytes)]
       /\ IF ~check_budget(store, r.size)
          THEN Finish(p, ErrorResult(BudgetMessage(r.kind)))
          ELSE IF r.kind = "file" /\ ~DecodeOk(r)
               THEN Finish(p, ErrorResult("File must be UTF-8 encoded text"))
               ELSE IF r.kind = "url" /\ r.text = <<>>
                    THEN Finish(p, ErrorResult("Could not extract text from URL"))
                    ELSE ingest' = [ingest EXCEPT ![p].pc = "upsert_document"]
       /\ UNCHANGED <<store, PureVars>>

UpsertDocument(p) ==
    LET r == ingest[p].req
        ops == ProcessOps(r.text, DocId(r))
    IN /\ ingest[p].pc = "upsert_document"
       /\ store' = upsert_document(store, DocId(r), r.kind, r.name,
                                   IF r.kind = "url" THEN r.name ELSE NULL, r.size)
       /\ hist' = [hist EXCEPT !.writes[p] = @ + 1,
                               !.overlapped = @ \/ InFlight(Other(p))]
       /\ IF ops = <<>>
          THEN Finish(p, SuccessResult(r))
          ELSE ingest' = [ingest EXCEPT ![p].pc = "process", ![p].todo = ops]
       /\ UNCHANGED PureVars

\* the next store call of _process_content
StoreOp(p) ==
    LET o == Head(ingest[p].todo)
    IN /\ ingest[p].pc = "process"
       /\ store' = ApplyOp(store, o)
       /\ hist' = [hist EXCEPT
              !.writes[p] = @ + 1,
              !.overlapped = @ \/ InFlight(Other(p)),
              !.issued_freq = IF o.op = "upsert_concept"
                              THEN Put(@, o.label, Lookup(@, o.label) + o.freq) ELSE @,
              !.issued_weight =
                  IF o.op = "bump_cooccurrence"
                  THEN Put(@, Unordered(o.concept1, o.concept2),
                           Lookup(@, Unordered(o.concept1, o.concept2)) + o.weight)
                  ELSE @]
       /\ IF Tail(ingest[p].todo) = <<>>
          THEN Finish(p, SuccessResult(ingest[p].req))
          ELSE ingest' = [ingest EXCEPT ![p].todo = Tail(@)]
       /\ UNCHANGED PureVars

NoRun == [pc |-> "off"]

PureIdle ==
    /\ chunker = NoRun /\ aggregator = NoRun /\ order = NoRun
    /\ search = NoRun /\ qa = NoRun /\ detector = NoRun /\ conn = NoRun

Init == IngestInit /\ PureIdle

Next ==
    \/ \E p \in Procs, r \in Requests : Submit(p, r)
    \/ \E p \in Procs : ValidateUrl(p)
    \/ \E p \in Procs, outcome \in RobotsOutcomes : Robots(p, outcome)
    \/ \E p \in Procs : Fetch(p)
    \/ \E p \in Procs : CheckBudget(p)
    \/ \E p \in Procs : UpsertDocument(p)
    \/ \E p \in Procs : StoreOp(p)

Spec == Init /\ [][Next]_vars

(***************************************************************************)
(* Properties of ingestion, checked under Spec                             *)
(***************************************************************************)
Succeeded(p) == ingest[p].pc = "done" /\ ingest[p].result.status = "success"
Rejected(p) == ingest[p].pc = "done" /\ ingest[p].result.status = "error"

NodeCounts(s) ==
    [documents |-> Cardinality(DOMAIN s.documents),
     chunks |-> Cardinality(DOMAIN s.chunks),
     mentions |-> Cardinality(s.mentions),
     co_occurs |-> Cardinality(DOMAIN s.co_occurs)]

\* q ingests, after p's ingestion of it has succeeded, the same source with the
\* same content
Reingests(q) ==
    /\ ingest[q].pc # "idle"
    /\ hist.after[q]
    /\ Succeeded(Other(q))
    /\ ingest[q].req = ingest[Other(q)].req

\* C1: ingesting the same document (same filename or URL, same content) a second
\* time leaves the number of Document nodes unchanged and adds no Chunk node, no
\* Mentions edge and no CoOccurs edge to what the first ingestion left, at every
\* step of the second ingestion and at its end.
C1_ReingestAddsNothing ==
    \A q \in Procs : Reingests(q) => NodeCounts(store) = NodeCounts(hist.pre[q])

C1_Witness ==
    \E q \in Procs :
        /\ Reingests(q) /\ Succeeded(q)
        /\ NodeCounts(store).chunks >= 2
        /\ NodeCounts(store).mentions >= 3
        /\ NodeCounts(store).co_occurs >= 2

\* total weight stored between the two labels of an unordered pair
StoredWeight(s, pair) ==
    SumSet([e \in DOMAIN s.co_occurs |-> s.co_occurs[e]],
           {e \in DOMAIN s.co_occurs : {e[1], e[2]} = pair})

StoredPairs(s) == {{e[1], e[2]} : e \in DOMAIN s.co_occurs}

\* C3: however the store calls of two ingestions interleave, the frequency of
\* every concept is the sum of the frequency increments issued so far and the
\* weight of every CoOccurs edge is the sum of the weight increments issued so
\* far for its pair; so it is at the end.
C3_NoLostIncrement ==
    /\ DOMAIN store.concepts = DOMAIN hist.issued_freq
    /\ \A l \in DOMAIN store.concepts : store.concepts[l].freq = hist.issued_freq[l]
    /\ StoredPairs(store) = DOMAIN hist.issued_weight
    /\ \A pair \in DOMAIN hist.issued_weight :
           StoredWeight(store, pair) = hist.issued_weight[pair]

C3_Witness ==
    /\ \A p \in Procs : Succeeded(p)
    /\ hist.overlapped
    /\ \A p \in Procs : \E o \in Range(ProcessOps(ingest[p].req.text, DocId(ingest[p].req))) :
           o.op = "bump_cooccurrence" /\ {o.concept1, o.concept2} = {"x", "y"}
    /\ StoredWeight(store, {"x", "y"}) >= 2 * WeightScale
    /\ store.concepts["x"].freq >= 2

ConceptLabels == {Lower(c) : c \in Letters}

\* chunks of the document whose text has a span normalising to the label
ChunksMentioning(text, label) ==
    LET chunks == chunk_text(text, CHUNK_SIZE, CHUNK_OVERLAP)
    IN Cardinality({i \in 1..Len(chunks) :
           \E k \in 1..Len(chunks[i].text) :
               chunks[i].text[k] \in Letters /\ Lower(chunks[i].text[k]) = label})

\* raw occurrences of the label in the normalised document text
RawMentions(text, label) ==
    Len(SelectSeq(clean_text(text), LAMBDA c : c \in Letters /\ Lower(c) = label))

\* p has made its upsert_concept call for the label, if it has one to make
ConceptUpserted(p, label) ==
    \/ Succeeded(p)
    \/ /\ ingest[p].pc = "process"
       /\ \A i \in 1..Len(ingest[p].todo) :
              ~(ingest[p].todo[i].op = "upsert_concept" /\ ingest[p].todo[i].label = label)

\* C4: each ingestion adds to a concept's stored frequency exactly the number of
\* chunks of its document whose concept list contains the label (not the number
\* of raw occurrences): the stored frequency is the sum of these chunk counts
\* over the ingestions that have made their upsert for the label.
C4_FrequencyCountsChunks ==
    \A label \in ConceptLabels :
        (IF label \in DOMAIN store.concepts THEN store.concepts[label].freq ELSE 0)
        = SumSet([p \in Procs |-> IF ConceptUpserted(p, label)
                                  THEN ChunksMentioning(ingest[p].req.text, label)
                                  ELSE 0], Procs)

\* two documents, each with the label in exactly one chunk (one of them with two
\* raw occurrences in that chunk): frequency 2
C4_Witness ==
    /\ \A p \in Procs : Succeeded(p) /\ ChunksMentioning(ingest[p].req.text, "x") = 1
    /\ DocId(ingest["p1"].req) # DocId(ingest["p2"].req)
    /\ \E p \in Procs : RawMentions(ingest[p].req.text, "x") = 2
    /\ store.concepts["x"].freq = 2

\* C7: an ingestion of N bytes whose budget check runs (no other ingestion being
\* in flight) while the bytes stored plus N exceed the ceiling fails with the
\* budget-exceeded error, and a rejected ingestion has written nothing.
C7_BudgetRejects ==
    \A p \in Procs :
        /\ (hist.checked[p] /\ hist.over[p]) =>
               /\ Rejected(p)
               /\ ingest[p].result.error = BudgetMessage(ingest[p].req.kind)
        /\ (Rejected(p) /\ ingest[p].result.error = BudgetMessage(ingest[p].req.kind)) =>
               hist.writes[p] = 0

\* input that one of the validations before the first write refuses
Invalid(r) ==
    \/ r.kind = "file" /\ ~r.utf8
    \/ r.kind = "url" /\ Scheme(r.name) \notin {"http", "https"}
    \/ r.kind = "url" /\ r.fetch # "ok"
    \/ r.kind = "url" /\ r.size > MaxUrlBytes
    \/ r.kind = "url" /\ r.text = <<>>

\* C8: every ingestion that validation rejects (budget, non-UTF-8 content,
\* non-HTTP(S) scheme, failed fetch, oversize content, no extractable text) ends
\* as a failure carrying a reason, and no write was made to the store for it; an
\* input that one of the input validations refuses is so rejected.
C8_RejectedPersistsNothing ==
    \A p \in Procs :
        /\ (ingest[p].pc = "done" /\ Invalid(ingest[p].req)) => Rejected(p)
        /\ Rejected(p) => /\ ingest[p].result.error \in ValidationMessages
                          /\ hist.writes[p] = 0
        /\ hist.writes[p] > 0 => ingest[p].pc \in {"process", "done"}

C8_Witness ==
    \E p \in Procs :
        /\ Rejected(p) /\ hist.writes[p] = 0
        /\ ingest[p].result.error = "File would exceed budget"
        /\ Succeeded(Other(p))
        /\ DocId(ingest[p].req) \notin DOMAIN store.documents

(***************************************************************************)
(* chunk_text on its own: every text, window and overlap within the bounds *)
(***************************************************************************)
ChunkChars == {"x", SPACE, "<LF>"}

ChunkerInit ==
    \E text \in SeqsUpTo(ChunkChars, MaxTextLen), chunk_size \in 1..MaxWindow :
        \E overlap \in 0..(chunk_size - 1) :
            chunker = [pc |-> "input", text |-> text, chunk_size |-> chunk_size,
                       overlap |-> overlap, chunks |-> <<>>]

ChunkText ==
    /\ chunker.pc = "input"
    /\ chunker' = [chunker EXCEPT
           !.pc = "done",
           !.chunks = chunk_text(chunker.text, chunker.chunk_size, chunker.overlap)]
    /\ UNCHANGED <<IngestVars, aggregator, order, search, qa, detector, conn>>

InitChunk ==
    /\ IngestInit /\ ChunkerInit
    /\ aggregator = NoRun /\ order = NoRun /\ search = NoRun /\ qa = NoRun
    /\ detector = NoRun /\ conn = NoRun

NextChunk == ChunkText

SpecChunk == InitChunk /\ [][NextChunk]_vars

Spans(chunks) == UNION {chunks[i].start .. (chunks[i].end - 1) : i \in 1..Len(chunks)}

\* C6 as claimed: for a text of length L, a window W and an overlap V with
\* 0 <= V < W, the spans of the chunks chunk_text produces have union exactly
\* [0, L), and for every chunk i but the last end_i - start_{i+1} = V.
C6_CoverageOfInput ==
    chunker.pc = "done" =>
        LET chunks == chunker.chunks
            L == Len(chunker.text)
        IN /\ Spans(chunks) = 0..(L - 1)
           /\ \A i \in 1..(Len(chunks) - 1) :
                  chunks[i].end - chunks[i + 1].start = chunker.overlap

\* C6 amended: chunk_text normalises its input first; with L the length of the
\* normalised text, a window W and an overlap V with 0 <= V < W, the spans of
\* the chunks have union exactly [0, L), every span satisfies
\* 0 <= start < end <= L, and for every chunk i but the last
\* end_i - start_{i+1} = V.
C6_CoverageAndOverlap ==
    chunker.pc = "done" =>
        LET chunks == chunker.chunks
            L == Len(clean_text(chunker.text))
        IN /\ Spans(chunks) = 0..(L - 1)
           /\ \A i \in 1..Len(chunks) :
                  0 <= chunks[i].start /\ chunks[i].start < chunks[i].end
                  /\ chunks[i].end <= L
           /\ \A i \in 1..(Len(chunks) - 1) :
                  chunks[i].end - chunks[i + 1].start = chunker.overlap

\* a text that normalisation shortens, cut into three overlapping chunks
C6_Witness ==
    /\ chunker.pc = "done"
    /\ Len(chunker.chunks) >= 3
    /\ chunker.overlap >= 1
    /\ clean_text(chunker.text) # chunker.text

\* C27: chunk_text returns exactly one chunk whenever the length of the
\* normalised text is at most the window W, and for an empty text the span of
\* that chunk is empty.
C27_ShortAndEmptyTexts ==
    (chunker.pc = "done" /\ Len(clean_text(chunker.text)) <= chunker.chunk_size) =>
        /\ Len(chunker.chunks) = 1
        /\ clean_text(chunker.text) = <<>> =>
               chunker.chunks[1].start = chunker.chunks[1].end

(***************************************************************************)
(* compute_cooccurrence_pairs on its own: every concept list and window    *)
(***************************************************************************)
PairLabels == {"A", "B", "C"}

AggregatorInit ==
    \E concepts \in SeqsUpTo(PairLabels, MaxConcepts), window_size \in 0..MaxPairWindow :
        aggregator = [pc |-> "input", concepts |-> concepts,
                      window_size |-> window_size, pairs |-> <<>>,
                      applied |-> 0, direct |-> <<>>]

ComputePairs ==
    /\ aggregator.pc = "input"
    /\ aggregator' = [aggregator EXCEPT
           !.pc = "done",
           !.pairs = compute_cooccurrence_pairs(aggregator.concepts,
                                                aggregator.window_size)]
    /\ UNCHANGED <<IngestVars, chunker, order, search, qa, detector, conn>>

InitPairs ==
    /\ IngestInit /\ AggregatorInit
    /\ chunker = NoRun /\ order = NoRun /\ search = NoRun /\ qa = NoRun
    /\ detector = NoRun /\ conn = NoRun

NextPairs == ComputePairs

SpecPairs == InitPairs /\ [][NextPairs]_vars

\* position pairs i < j < i + N whose labels differ
EmittingPositions(concepts, N) ==
    {ij \in (1..Len(concepts)) \X (1..Len(concepts)) :
        ij[1] < ij[2] /\ ij[2] < ij[1] + N /\ concepts[ij[1]] # concepts[ij[2]]}

\* the increment for a position pair: the two labels and 1 / (j - i)
Increment(concepts, ij) ==
    <<concepts[ij[1]], concepts[ij[2]], WeightScale \div (ij[2] - ij[1])>>

\* C5: for an ordered concept list and a window N, compute_cooccurrence_pairs
\* emits one increment of 1 / (j - i) for each position pair i < j < i + N whose
\* labels differ, and nothing else; for [A, B, C] with N >= 3 the increments are
\* exactly {A,B}: 1.0, {A,C}: 0.5, {B,C}: 1.0.
C5_PairIncrements ==
    aggregator.pc = "done" =>
        LET concepts == aggregator.concepts
            pairs == aggregator.pairs
            emitting == EmittingPositions(concepts, aggregator.window_size)
        IN /\ Len(pairs) = Cardinality(emitting)
           /\ \A ij \in emitting :
                  Cardinality({k \in 1..Len(pairs) : pairs[k] = Increment(concepts, ij)})
                  = Cardinality({other \in emitting :
                        Increment(concepts, other) = Increment(concepts, ij)})
           /\ (concepts = <<"A", "B", "C">> /\ aggregator.window_size >= 3) =>
                  pairs = << <<"A", "B", WeightScale>>,
                             <<"A", "C", WeightScale \div 2>>,
                             <<"B", "C", WeightScale>> >>

C5_Witness ==
    /\ aggregator.pc = "done"
    /\ aggregator.concepts = <<"A", "B", "C">>
    /\ aggregator.window_size = 3
    /\ Len(aggregator.pairs) = 3

(***************************************************************************)
(* Two files ingested one after the other, in both orders, each order on   *)
(* its own store                                                           *)
(***************************************************************************)
\* ingest_file run to its end with nothing else in flight
ingest_file(s, r) ==
    IF ~check_budget(s, r.size) \/ ~DecodeOk(r)
    THEN [store |-> s, ok |-> FALSE]
    ELSE [store |-> RunOps(upsert_document(s, DocId(r), r.kind, r.name, NULL, r.size),
                           ProcessOps(r.text, DocId(r))),
          ok |-> TRUE]

OrderInit ==
    \E A \in FileRequests, B \in FileRequests :
        order = [pc |-> "first", A |-> A, B |-> B,
                 ab |-> EmptyStore, ba |-> EmptyStore, accepted |-> TRUE]

IngestFirst ==
    /\ order.pc = "first"
    /\ order' = [order EXCEPT
           !.pc = "second",
           !.ab = ingest_file(order.ab, order.A).store,
           !.ba = ingest_file(order.ba, order.B).store,
           !.accepted = ingest_file(order.ab, order.A).ok
                        /\ ingest_file(order.ba, order.B).ok]
    /\ UNCHANGED <<IngestVars, chunker, aggregator, search, qa, detector, conn>>

IngestSecond ==
    /\ order.pc = "second"
    /\ order' = [order EXCEPT
           !.pc = "done",
           !.ab = ingest_file(order.ab, order.B).store,
           !.ba = ingest_file(order.ba, order.A).store,
           !.accepted = /\ order.accepted
                        /\ ingest_file(order.ab, order.B).ok
                        /\ ingest_file(order.ba, order.A).ok]
    /\ UNCHANGED <<IngestVars, chunker, aggregator, search, qa, detector, conn>>

InitOrder ==
    /\ IngestInit /\ OrderInit
    /\ chunker = NoRun /\ aggregator = NoRun /\ search = NoRun /\ qa = NoRun
    /\ detector = NoRun /\ conn = NoRun

NextOrder == IngestFirst \/ IngestSecond

SpecOrder == InitOrder /\ [][NextOrder]_vars

WeightFrom(r, pair) ==
    LET bumps == SelectSeq(ProcessOps(r.text, DocId(r)),
                           LAMBDA o : o.op = "bump_cooccurrence"
                                      /\ {o.concept1, o.concept2} = pair)
    IN SumSeq([k \in 1..Len(bumps) |-> bumps[k].weight])

SearchIds == {"c1", "c2", "c3"}

RECURSIVE Perms(_)
Perms(S) ==
    IF S = {} THEN {<<>>}
    ELSE UNION {{<<x>> \o rest : rest \in Perms(S \ {x})} : x \in S}

\* the orders in which ORDER BY score DESC may list the nodes, cut to k rows
Rankings(ids, score, k) ==
    {SubSeq(r, 1, Min(k, Len(r))) :
        r \in {q \in Perms(ids) : \A i \in 1..(Len(q) - 1) : score[q[i]] >= score[q[i + 1]]}}

\* db.index.vector.queryNodes(.., $k, ..): the k nearest chunks, best first
VectorRankings(vscore, k) ==
    {[i \in 1..Len(r) |-> [chunk_id |-> r[i], score |-> vscore[r[i]]]] :
        r \in Rankings(DOMAIN vscore, vscore, k)}

\* db.index.fulltext.queryNodes: the matching chunks, ORDER BY score DESC LIMIT $k
KeywordRankings(kscore, k) ==
    {[i \in 1..Len(r) |-> [chunk_id |-> r[i], kw_score |-> kscore[r[i]]]] :
        r \in Rankings({c \in DOMAIN kscore : kscore[c] > 0}, kscore, k)}

VectorPartUnweighted(alpha, score) == AlphaDen * score

VectorPart(alpha, score) == alpha * score

KeywordPartUnweighted(alpha, kw_score) == AlphaDen * kw_score

KeywordPart(alpha, kw_score) == (AlphaDen - alpha) * kw_score

FromVector(vector_results, alpha) ==
    [i \in 1..Len(vector_results) |->
        [chunk_id |-> vector_results[i].chunk_id,
         vector_score |-> vector_results[i].score,
         kw_score |-> 0,
         combined_score |-> VectorPart(alpha, vector_results[i].score)]]

RECURSIVE AddKeyword(_, _, _)
\* the second loop of hybrid_search over an insertion-ordered dict
AddKeyword(combined_results, keyword_results, alpha) ==
    IF keyword_results = <<>> THEN combined_results
    ELSE LET result == Head(keyword_results)
             at == {i \in 1..Len(combined_results) :
                       combined_results[i].chunk_id = result.chunk_id}
         IN IF at # {}
            THEN AddKeyword(
                     [i \in 1..Len(combined_results) |->
                         IF i \in at
                         THEN [combined_results[i] EXCEPT
                                  !.kw_score = result.kw_score,
                                  !.combined_score = @ + KeywordPart(alpha, result.kw_score)]
                         ELSE combined_results[i]],
                     Tail(keyword_results), alpha)
            ELSE AddKeyword(
                     Append(combined_results,
                            [chunk_id |-> result.chunk_id, vector_score |-> 0,
                             kw_score |-> result.kw_score,
                             combined_score |-> KeywordPart(alpha, result.kw_score)]),
                     Tail(keyword_results), alpha)

InsertDescAhead(sorted, x) ==
    LET pos == Cardinality({i \in 1..Len(sorted) :
                               sorted[i].combined_score > x.combined_score})
    IN SubSeq(sorted, 1, pos) \o <<x>> \o SubSeq(sorted, pos + 1, Len(sorted))

\* where sorted(.., reverse=True) puts x: behind every element that is not smaller
InsertDesc(sorted, x) ==
    LET pos == Cardinality({i \in 1..Len(sorted) :
                               sorted[i].combined_score >= x.combined_score})
    IN SubSeq(sorted, 1, pos) \o <<x>> \o SubSeq(sorted, pos + 1, Len(sorted))

RECURSIVE SortLoop(_, _)
SortLoop(rest, sorted) ==
    IF rest = <<>> THEN sorted ELSE SortLoop(Tail(rest), InsertDesc(sorted, Head(rest)))

SortedByCombined(combined_results) == SortLoop(combined_results, <<>>)

hybrid_search(vector_results, keyword_results, k, alpha) ==
    LET sorted == SortedByCombined(AddKeyword(FromVector(vector_results, alpha),
                                              keyword_results, alpha))
    IN SubSeq(sorted, 1, Min(k, Len(sorted)))

SearchInit ==
    \E ids \in SUBSET SearchIds :
        \E vscore \in [ids -> 0..MaxScore], kscore \in [ids -> 0..MaxScore],
           k \in 1..MaxK, alpha \in 0..AlphaDen :
            search = [pc |-> "query", vscore |-> vscore, kscore |-> kscore, k |-> k,
                      alpha |-> alpha, vector_results |-> <<>>,
                      keyword_results |-> <<>>, fused |-> <<>>, results |-> <<>>,
                      chunks |-> <<>>]

HybridSearch ==
    /\ search.pc = "query"
    /\ \E vector_results \in VectorRankings(search.vscore, search.k),
          keyword_results \in KeywordRankings(search.kscore, search.k) :
           search' = [search EXCEPT
               !.pc = "done",
               !.vector_results = vector_results,
               !.keyword_results = keyword_results,
               !.fused = AddKeyword(FromVector(vector_results, search.alpha),
                                    keyword_results, search.alpha),
               !.results = hybrid_search(vector_results, keyword_results,
                                         search.k, search.alpha)]
    /\ UNCHANGED <<IngestVars, chunker, aggregator, order, qa, detector, conn>>

RECURSIVE GCD(_, _)
GCD(a, b) == IF b = 0 THEN a ELSE GCD(b, a % b)

\* a quotient of two scores, as a fraction in lowest terms
Quotient(a, b) == <<a \div GCD(a, b), b \div GCD(a, b)>>

NormalizedUnscaled(combined_score, max_score) == <<combined_score, 1>>

\* result['combined_score'] / max_score
Normalized(combined_score, max_score) == Quotient(combined_score, max_score)

\* max(result['combined_score'] for result in results)
MaxCombined(results) ==
    CHOOSE m \in {results[i].combined_score : i \in 1..Len(results)} :
        \A i \in 1..Len(results) : results[i].combined_score <= m

\* retrieval.RetrievalService.search_chunks on what hybrid_search returned: a
\* result is given the key normalized_score only under both conditions
search_chunks(results) ==
    IF results # <<>> /\ MaxCombined(results) > 0
    THEN [i \in 1..Len(results) |->
             results[i] @@ [normalized_score |->
                               Normalized(results[i].combined_score, MaxCombined(results))]]
    ELSE results

\* search_chunks: the normalisation of the scores hybrid_search returned
NormalizeScores ==
    /\ search.pc = "done"
    /\ search' = [search EXCEPT !.pc = "returned", !.chunks = search_chunks(search.results)]
    /\ UNCHANGED <<IngestVars, chunker, aggregator, order, qa, detector, conn>>

InitSearch ==
    /\ IngestInit /\ SearchInit
    /\ chunker = NoRun /\ aggregator = NoRun /\ order = NoRun /\ qa = NoRun
    /\ detector = NoRun /\ conn = NoRun

NextSearch == HybridSearch \/ NormalizeScores

SpecSearch == InitSearch /\ [][NextSearch]_vars

Ids(results) == [i \in 1..Len(results) |-> results[i].chunk_id]

TOP_CHUNKS == 2
TOP_SENTENCES == 2
MIN_SENTENCE_LEN == 1
SNIPPET_LEN == 3
NODES_USED == 2

Punctuation == {".", "!", "?"}
ELLIPSIS == <<".", ".", ".">>
NO_INFORMATION == "I couldn't find any relevant information to answer your question."
NO_CLEAR_ANSWER == "I couldn't generate a clear answer from the available information."

QaDocs == {"d1", "d2"}
QaTexts ==
    {<<"a">>,
     <<"a", "b">>,
     <<"b", "a", ".", "!", " ", "a", "a", "?", " ">>}
QaScores == {1, 2}
LlmOutcomes == {"ok", "timeout", "malformed", "quota"}

Strip(text) == RStrip(LStrip(text))

RECURSIVE SplitLoop(_, _, _, _)
\* re.split(r'[.!?]+', text)
SplitLoop(text, piece, in_run, pieces) ==
    IF text = <<>> THEN Append(pieces, piece)
    ELSE IF Head(text) \in Punctuation
         THEN IF in_run THEN SplitLoop(Tail(text), <<>>, TRUE, pieces)
              ELSE SplitLoop(Tail(text), <<>>, TRUE, Append(pieces, piece))
         ELSE SplitLoop(Tail(text), Append(piece, Head(text)), FALSE, pieces)

SplitSentences(text) == SplitLoop(text, <<>>, FALSE, <<>>)

Snippet(text) ==
    IF Len(text) > SNIPPET_LEN THEN SubSeq(text, 1, SNIPPET_LEN) \o ELLIPSIS ELSE text

Prefix(s, n) == SubSeq(s, 1, Min(n, Len(s)))

RECURSIVE ChunkSentences(_, _)
ChunkSentences(chunk, sentences) ==
    IF sentences = <<>> THEN <<>>
    ELSE LET sentence == Strip(Head(sentences))
         IN (IF Len(sentence) > MIN_SENTENCE_LEN
             THEN <<[text |-> sentence, score |-> chunk.score, docId |-> chunk.doc_id,
                     chunk_text |-> chunk.text]>>
             ELSE <<>>) \o ChunkSentences(chunk, Tail(sentences))

RECURSIVE AllSentences(_)
AllSentences(chunks) ==
    IF chunks = <<>> THEN <<>>
    ELSE ChunkSentences(Head(chunks), SplitSentences(Head(chunks).text))
             \o AllSentences(Tail(chunks))

\* list.sort(key=score, reverse=True): stable
InsertByScore(sorted, x) ==
    LET pos == Cardinality({i \in 1..Len(sorted) : sorted[i].score >= x.score})
    IN SubSeq(sorted, 1, pos) \o <<x>> \o SubSeq(sorted, pos + 1, Len(sorted))

RECURSIVE SortByScore(_, _)
SortByScore(rest, sorted) ==
    IF rest = <<>> THEN sorted ELSE SortByScore(Tail(rest), InsertByScore(sorted, Head(rest)))

RECURSIVE JoinSentences(_)
\* '. '.join(..)
JoinSentences(sentences) ==
    IF sentences = <<>> THEN <<>>
    ELSE IF Len(sentences) = 1 THEN sentences[1].text
    ELSE sentences[1].text \o <<".", " ">> \o JoinSentences(Tail(sentences))

RECURSIVE DedupSources(_, _)
DedupSources(sentences, seen_docs) ==
    IF sentences = <<>> THEN <<>>
    ELSE LET sentence == Head(sentences)
         IN IF sentence.docId \notin seen_docs
            THEN <<[docId |-> sentence.docId, snippet |-> Snippet(sentence.chunk_text),
                    url |-> NULL, score |-> sentence.score]>>
                     \o DedupSources(Tail(sentences), seen_docs \cup {sentence.docId})
            ELSE DedupSources(Tail(sentences), seen_docs)

_extractive_answer(chunks) ==
    LET all_sentences == SortByScore(AllSentences(Prefix(chunks, TOP_CHUNKS)), <<>>)
        top_sentences == Prefix(all_sentences, TOP_SENTENCES)
        joined == JoinSentences(top_sentences)
        answer == IF joined # <<>> /\ joined[Len(joined)] # "." THEN Append(joined, ".")
                  ELSE joined
    IN [answer |-> IF answer # <<>> THEN answer ELSE NO_CLEAR_ANSWER,
        sources |-> DedupSources(top_sentences, {}),
        raised |-> NULL]

LlmSources(chunks) ==
    LET top == Prefix(chunks, TOP_CHUNKS)
    IN [i \in 1..Len(top) |->
           [docId |-> top[i].doc_id, snippet |-> Snippet(top[i].text), url |-> NULL,
            score |-> top[i].score]]

\* does the call, or reading response.choices[0].message.content, raise
Raises(outcome) == outcome # "ok"

CaughtTimeoutOnly(outcome) == outcome = "timeout"

\* except Exception
Caught(outcome) == TRUE

_llm_answer(chunks, outcome) ==
    IF Raises(outcome)
    THEN IF Caught(outcome) THEN _extractive_answer(chunks)
         ELSE [answer |-> NULL, sources |-> <<>>, raised |-> outcome]
    ELSE [answer |-> "generated", sources |-> LlmSources(chunks), raised |-> NULL]

\* answer_data['nodes_used'] = concept_labels[:10]; an exception that left
\* _llm_answer leaves answer_question too
WithNodesUsed(answer_data, concepts) ==
    IF answer_data.raised # NULL THEN answer_data @@ [nodes_used |-> <<>>]
    ELSE answer_data @@ [nodes_used |-> Prefix(concepts, NODES_USED)]

NoChunksResponse ==
    [answer |-> NO_INFORMATION, sources |-> <<>>, nodes_used |-> <<>>, raised |-> NULL]

ConceptLists == {[i \in 1..n |-> <<"k", i>>] : n \in 0..MaxConceptsFound}

ChunkResults ==
    {r \in SeqsUpTo([doc_id : QaDocs, text : QaTexts, score : QaScores], MaxResults) :
        \A i \in 1..(Len(r) - 1) : r[i].score >= r[i + 1].score}

QaInit ==
    \E use_llm \in BOOLEAN :
        qa = [pc |-> "ask", use_llm |-> use_llm, chunk_results |-> <<>>, concepts |-> <<>>,
              expanded |-> FALSE, llm |-> "none", response |-> NULL]

NoChunksIgnored(chunk_results) == FALSE

\* if not chunk_results
NoChunks(chunk_results) == chunk_results = <<>>

\* answer_question: self.retrieval.search_chunks, and the return when it is empty
SearchChunks(chunk_results) ==
    /\ qa.pc = "ask"
    /\ qa' = IF NoChunks(chunk_results)
             THEN [qa EXCEPT !.pc = "done", !.response = NoChunksResponse]
             ELSE [qa EXCEPT !.pc = "expand", !.chunk_results = chunk_results]
    /\ UNCHANGED <<IngestVars, chunker, aggregator, order, search, detector, conn>>

\* answer_question: self.retrieval.expand_context
ExpandContext(concepts) ==
    /\ qa.pc = "expand"
    /\ qa' = [qa EXCEPT !.pc = "answer", !.concepts = concepts, !.expanded = TRUE]
    /\ UNCHANGED <<IngestVars, chunker, aggregator, order, search, detector, conn>>

\* answer_question: the generative strategy and the nodes_used it is given
LlmAnswer(outcome) ==
    /\ qa.pc = "answer" /\ qa.use_llm
    /\ qa' = [qa EXCEPT !.pc = "done", !.llm = outcome,
                        !.response = WithNodesUsed(_llm_answer(qa.chunk_results, outcome),
                                                   qa.concepts)]
    /\ UNCHANGED <<IngestVars, chunker, aggregator, order, search, detector, conn>>

\* answer_question: the extractive strategy and the nodes_used it is given
ExtractiveAnswer ==
    /\ qa.pc = "answer" /\ ~qa.use_llm
    /\ qa' = [qa EXCEPT !.pc = "done",
                        !.response = WithNodesUsed(_extractive_answer(qa.chunk_results),
                                                   qa.concepts)]
    /\ UNCHANGED <<IngestVars, chunker, aggregator, order, search, detector, conn>>

InitQA ==
    /\ IngestInit /\ QaInit
    /\ chunker = NoRun /\ aggregator = NoRun /\ order = NoRun /\ search = NoRun
    /\ detector = NoRun /\ conn = NoRun

NextQA ==
    \/ \E chunk_results \in ChunkResults : SearchChunks(chunk_results)
    \/ \E concepts \in ConceptLists : ExpandContext(concepts)
    \/ \E outcome \in LlmOutcomes : LlmAnswer(outcome)
    \/ ExtractiveAnswer

SpecQA == InitQA /\ [][NextQA]_vars

\* C10: when the generative strategy is selected and the external model call
\* fails, answer_question returns a normal response (answer, sources,
\* nodes_used) equal to what the extractive strategy returns for the same
\* retrieved chunks, and no failure reaches the caller.
C10_GenerativeFallback ==
    (qa.pc = "done" /\ qa.use_llm /\ qa.llm \notin {"none", "ok"}) =>
        /\ qa.response.raised = NULL
        /\ qa.response = WithNodesUsed(_extractive_answer(qa.chunk_results), qa.concepts)
        /\ DOMAIN qa.response = {"answer", "sources", "nodes_used", "raised"}

\* a failed call (not a timeout) answered from the sentences of one of two
\* retrieved chunks, with the concept labels cut to the limit
C10_Witness ==
    /\ qa.pc = "done" /\ qa.use_llm /\ qa.llm = "quota"
    /\ Len(qa.chunk_results) >= 2
    /\ Len(qa.response.sources) = 1
    /\ Len(qa.concepts) > NODES_USED
    /\ Len(qa.response.nodes_used) = NODES_USED
    /\ qa.response.sources # LlmSources(qa.chunk_results)

\* C11: whenever retrieval returns no chunks, answer_question returns the fixed
\* "couldn't find any relevant information" answer with empty sources and empty
\* nodes_used, under the extractive and the generative configuration alike,
\* and neither context expansion nor the generative model has been invoked.
C11_EmptyRetrievalShortCircuit ==
    (qa.pc = "done" /\ qa.chunk_results = <<>>) =>
        /\ qa.response.answer = NO_INFORMATION
        /\ qa.response.sources = <<>>
        /\ qa.response.nodes_used = <<>>
        /\ qa.response.raised = NULL
        /\ ~qa.expanded
        /\ qa.llm = "none"

\* the generative configuration answering a retrieval that found nothing
C11_Witness ==
    /\ qa.pc = "done" /\ qa.use_llm
    /\ qa.chunk_results = <<>>
    /\ qa.response = NoChunksResponse

\* the first (highest-scored) of the top chunks that belongs to the document
FirstChunkOf(chunks, doc_id) ==
    chunks[CHOOSE i \in 1..Len(chunks) :
               /\ chunks[i].doc_id = doc_id
               /\ \A j \in 1..(i - 1) : chunks[j].doc_id # doc_id]

\* C28: in the extractive answer no two sources share a document id, and the
\* source kept for a document is taken from that document's first
\* (highest-scored) chunk among the top retrieved chunks, its snippet being
\* that chunk's text cut to the snippet length.
C28_ExtractiveSources ==
    (qa.pc = "done" /\ ~qa.use_llm /\ qa.chunk_results # <<>>) =>
        LET sources == qa.response.sources
            top == Prefix(qa.chunk_results, TOP_CHUNKS)
        IN /\ \A i, j \in 1..Len(sources) :
                  sources[i].docId = sources[j].docId => i = j
           /\ \A i \in 1..Len(sources) :
                  /\ \E k \in 1..Len(top) : top[k].doc_id = sources[i].docId
                  /\ sources[i].snippet
                         = Snippet(FirstChunkOf(top, sources[i].docId).text)

\* what C12 compares: the documents, the chunks, every concept's frequency,
\* the Mentions edges and every CoOccurs edge's weight
StoreState(s) ==
    [documents |-> DOMAIN s.documents,
     chunks |-> s.chunks,
     freq |-> [l \in DOMAIN s.concepts |-> s.concepts[l].freq],
     mentions |-> s.mentions,
     weight |-> [pair \in StoredPairs(s) |-> StoredWeight(s, pair)]]

\* C12: after the same source with the same content has been ingested a second
\* time, the store state (documents, chunks, every concept frequency, every
\* Mentions edge and every CoOccurs edge weight) equals the state after the
\* first ingestion.
C12_ReingestIsNoOp ==
    \A q \in Procs :
        (Reingests(q) /\ Succeeded(q)) => StoreState(store) = StoreState(hist.pre[q])

\* the order in which hybrid search meets the chunk ids: the vector results,
\* then the keyword results the vector search did not return
InputOrder ==
    Ids(search.vector_results)
        \o SelectSeq(Ids(search.keyword_results),
                     LAMBDA c : c \notin Range(Ids(search.vector_results)))

PositionIn(ids, c) == CHOOSE i \in 1..Len(ids) : ids[i] = c

\* C13: hybrid search returns at most k results, in non-increasing order of
\* combined score, and results with equal combined score keep their input
\* order, vector-ranked results ahead of keyword-only results.
C13_BoundAndOrder ==
    search.pc = "done" =>
        LET results == search.results
        IN /\ Len(results) <= search.k
           /\ \A i \in 1..(Len(results) - 1) :
                  results[i].combined_score >= results[i + 1].combined_score
           /\ \A i, j \in 1..Len(results) :
                  (i < j /\ results[i].combined_score = results[j].combined_score) =>
                      /\ PositionIn(InputOrder, results[i].chunk_id)
                             < PositionIn(InputOrder, results[j].chunk_id)
                      /\ results[j].chunk_id \in Range(Ids(search.vector_results))
                             => results[i].chunk_id \in Range(Ids(search.vector_results))

\* a vector-ranked result ahead of a keyword-only result of equal positive
\* combined score, in a result list cut to k
C13_Witness ==
    /\ search.pc = "done"
    /\ Len(search.results) = search.k
    /\ Len(InputOrder) > search.k
    /\ \E i, j \in 1..Len(search.results) :
           /\ i < j
           /\ search.results[i].combined_score = search.results[j].combined_score
           /\ search.results[i].combined_score > 0
           /\ search.results[i].chunk_id \in Range(Ids(search.vector_results))
           /\ search.results[j].chunk_id \notin Range(Ids(search.vector_results))

HasNormalized(chunk) == "normalized_score" \in DOMAIN chunk

\* chunk.get('normalized_score', chunk.get('combined_score', 0)), as the answer
\* strategies read a result's score
ScoreRead(chunk) ==
    IF HasNormalized(chunk) THEN chunk.normalized_score ELSE <<chunk.combined_score, 1>>

\* C14 as claimed: after search_chunks every result carries a normalized score
\* equal to its combined score divided by the maximum combined score of the
\* result set, so the top result has normalized score 1.0; if every combined
\* score is 0, every result has normalized score 0.
C14_NormalizedAlways ==
    search.pc = "returned" =>
        LET chunks == search.chunks
        IN \A i \in 1..Len(chunks) :
               /\ HasNormalized(chunks[i])
               /\ IF MaxCombined(chunks) > 0
                  THEN /\ chunks[i].normalized_score[1] * MaxCombined(chunks)
                              = chunks[i].combined_score * chunks[i].normalized_score[2]
                       /\ chunks[1].normalized_score = <<1, 1>>
                  ELSE chunks[i].normalized_score[1] = 0

\* C14 amended: after search_chunks, when some combined score is positive every
\* result carries a normalized score equal to its combined score divided by
\* the maximum combined score of the result set, so the top result has
\* normalized score 1.0; when every combined score is 0 no result carries a
\* normalized score, and the score read from a result is its combined score 0.
C14_NormalizedWhenPositive ==
    search.pc = "returned" =>
        LET chunks == search.chunks
        IN /\ Ids(chunks) = Ids(search.results)
           /\ \A i \in 1..Len(chunks) :
               /\ chunks[i].combined_score = search.results[i].combined_score
               /\ IF MaxCombined(chunks) > 0
                  THEN /\ HasNormalized(chunks[i])
                       /\ chunks[i].normalized_score[2] > 0
                       /\ chunks[i].normalized_score[1] * MaxCombined(chunks)
                              = chunks[i].combined_score * chunks[i].normalized_score[2]
                       /\ chunks[1].normalized_score = <<1, 1>>
                  ELSE /\ ~HasNormalized(chunks[i])
                       /\ ScoreRead(chunks[i]) = <<0, 1>>

\* three results normalised by a maximum above 1 to three different scores
C14_Witness ==
    /\ search.pc = "returned"
    /\ Len(search.chunks) = 3
    /\ MaxCombined(search.chunks) > 1
    /\ search.chunks[1].normalized_score = <<1, 1>>
    /\ search.chunks[2].normalized_score = <<1, 2>>
    /\ search.chunks[3].normalized_score = <<0, 1>>

\* the score a result list gives the chunk id, 0 when the list does not hold it
ScoreIn(results, field, c) ==
    IF \E i \in 1..Len(results) : results[i].chunk_id = c
    THEN results[CHOOSE i \in 1..Len(results) : results[i].chunk_id = c][field]
    ELSE 0

\* C15: the fused set holds every chunk id of the vector top-k and keyword
\* top-k result sets exactly once, each with combined score
\* alpha * vectorScore + (1 - alpha) * keywordScore, a score missing from either
\* side counting as 0; the results returned carry these scores.
C15_ScoreFusion ==
    search.pc = "done" =>
        LET fused == search.fused
            union == Range(Ids(search.vector_results)) \cup Range(Ids(search.keyword_results))
        IN /\ Range(Ids(fused)) = union
           /\ Len(fused) = Cardinality(union)
           /\ \A i \in 1..Len(fused) :
                  LET vs == ScoreIn(search.vector_results, "score", fused[i].chunk_id)
                      ks == ScoreIn(search.keyword_results, "kw_score", fused[i].chunk_id)
                  IN /\ fused[i].vector_score = vs
                     /\ fused[i].kw_score = ks
                     /\ fused[i].combined_score
                            = search.alpha * vs + (AlphaDen - search.alpha) * ks
           /\ Range(search.results) \subseteq Range(fused)

\* alpha = 1/2 fusing a chunk both searches found, one only the vector search
\* found and one only the keyword search found
C15_Witness ==
    /\ search.pc = "done"
    /\ search.alpha = 1
    /\ \E a, b, c \in Range(search.fused) :
           /\ a.vector_score > 0 /\ a.kw_score > 0
           /\ a.combined_score = a.vector_score + a.kw_score
           /\ b.vector_score > 0
           /\ b.chunk_id \notin Range(Ids(search.keyword_results))
           /\ c.kw_score > 0
           /\ c.chunk_id \notin Range(Ids(search.vector_results))

(***************************************************************************)
(* The aggregator feeding the store, as in the last loop of                *)
(* _process_content, for every concept list (lists with repeated labels    *)
(* included), beside calls of upsert_concept and bump_cooccurrence that     *)
(* any other caller of the store makes with labels of its choice.          *)
(***************************************************************************)
\* self.store.upsert_concept for a label not stored yet
UpsertLabel(label) ==
    /\ aggregator.pc = "input"
    /\ label \notin DOMAIN store.concepts
    /\ store' = upsert_concept(store, ConceptId(label), label, label, 1, NULL)
    /\ UNCHANGED <<ingest, hist, aggregator, PureVars>>

\* for concept1, concept2, weight in pairs: self.store.bump_cooccurrence(..)
BumpNext ==
    /\ aggregator.pc = "done"
    /\ aggregator.applied < Len(aggregator.pairs)
    /\ LET pair == aggregator.pairs[aggregator.applied + 1]
       IN store' = bump_cooccurrence(store, pair[1], pair[2], pair[3])
    /\ aggregator' = [aggregator EXCEPT !.applied = @ + 1]
    /\ UNCHANGED <<ingest, hist, chunker, order, search, qa, detector, conn>>

\* Neo4jStore.bump_cooccurrence called with any two labels
BumpDirect(label1, label2) ==
    /\ aggregator.pc = "done"
    /\ aggregator.applied = Len(aggregator.pairs)
    /\ Len(aggregator.direct) < MaxDirect
    /\ store' = bump_cooccurrence(store, label1, label2, WeightScale)
    /\ aggregator' = [aggregator EXCEPT !.direct = Append(@, <<label1, label2>>)]
    /\ UNCHANGED <<ingest, hist, chunker, order, search, qa, detector, conn>>

NextEdges ==
    \/ \E label \in PairLabels : UpsertLabel(label)
    \/ ComputePairs
    \/ BumpNext
    \/ \E label1, label2 \in PairLabels : BumpDirect(label1, label2)

SpecEdges == InitPairs /\ [][NextEdges]_vars

\* C16: no CoOccurs edge connects a concept to itself, and the aggregator emits
\* no pair whose two labels are equal.
C16_NoSelfLoops ==
    /\ \A e \in DOMAIN store.co_occurs : e[1] # e[2]
    /\ \A i \in 1..Len(aggregator.pairs) : aggregator.pairs[i][1] # aggregator.pairs[i][2]

\* a list that repeats a label within the window has been aggregated and
\* stored, and the store has been asked to link a stored concept to itself
C16_Witness ==
    /\ aggregator.pc = "done"
    /\ aggregator.concepts = <<"A", "B", "A">>
    /\ aggregator.window_size >= 3
    /\ aggregator.applied = Len(aggregator.pairs)
    /\ aggregator.direct = <<<<"A", "A">>>>
    /\ "A" \in DOMAIN store.concepts
    /\ StoredWeight(store, {"A", "B"}) = 2 * WeightScale

\* C17: an ingest_url whose site's robots.txt was fetched with status 200 and
\* disallows access fails and persists nothing; when robots.txt is absent or
\* its fetch fails, ingestion proceeds to fetch the URL.
C17_RobotsPolicy ==
    \A p \in Procs :
        /\ hist.robots[p] = "disallow" =>
               /\ hist.writes[p] = 0
               /\ ingest[p].pc = "done" => Rejected(p)
        /\ hist.robots[p] \in {"absent", "unreachable"} =>
               ingest[p].pc \in {"fetch", "check_budget", "upsert_document", "process", "done"}

(***************************************************************************)
(* graph_ops.GraphOperations.compute_communities, one run over a store     *)
(* that ingestion has filled.  Every session.run is one step; a step of    *)
(* the preferred (GDS) path or of the fallback (NetworkX) path may raise.  *)
(* Concept nodes are named by their label, which determines their id.      *)
(***************************************************************************)
\* the files of FileRequests and one more, whose only concept is z
CommunityRequests ==
    FileRequests
        \cup {[kind |-> "file", name |-> f, utf8 |-> TRUE, text |-> <<"z">>, size |-> 1,
                fetch |-> "n/a"] : f \in FileNames}

StoresAfterIngestion ==
    {EmptyStore}
        \cup {ingest_file(EmptyStore, a).store : a \in CommunityRequests}
        \cup {ingest_file(ingest_file(EmptyStore, a).store, b).store :
                 a \in CommunityRequests, b \in CommunityRequests}

Communities(s) == [l \in DOMAIN s.concepts |-> s.concepts[l].community]

\* Neo4jStore.get_graph: the Concept nodes in the order the database lists
\* them, and the CO_OCCURS relationships as source and target
GraphSnapshots(s) ==
    {[nodes |-> nodes, edges |-> DOMAIN s.co_occurs] : nodes \in Perms(DOMAIN s.concepts)}

RECURSIVE Reach(_, _)
Reach(seen, edges) ==
    LET more == seen \cup {e[2] : e \in {d \in edges : d[1] \in seen}}
                     \cup {e[1] : e \in {d \in edges : d[2] \in seen}}
    IN IF more = seen THEN seen ELSE Reach(more, edges)

\* the connected component of a node of G
ComponentOf(graph, n) == Reach({n}, graph.edges)

FirstPosition(graph, component) ==
    CHOOSE i \in 1..Len(graph.nodes) :
        /\ graph.nodes[i] \in component
        /\ \A j \in 1..(i - 1) : graph.nodes[j] \notin component

ComponentPartitionFlat(graph) == [n \in Range(graph.nodes) |-> 0]

\* for i, component in enumerate(nx.connected_components(G)): partition[node] = i
ComponentPartition(graph) ==
    [n \in Range(graph.nodes) |->
        Cardinality({FirstPosition(graph, ComponentOf(graph, m)) : m \in Range(graph.nodes)}
                        \cap 1..(FirstPosition(graph, ComponentOf(graph, n)) - 1))]

\* community_louvain.best_partition(G): some labelling that keeps the
\* components apart
LouvainPartitions(graph) ==
    {f \in [Range(graph.nodes) -> 0..(Len(graph.nodes) - 1)] :
        \A n, m \in Range(graph.nodes) :
            f[n] = f[m] => ComponentOf(graph, n) = ComponentOf(graph, m)}

Partitions(graph, has_louvain) ==
    IF has_louvain THEN LouvainPartitions(graph) ELSE {ComponentPartition(graph)}

set_node(s, label, community_id) ==
    IF label \in DOMAIN s.concepts
    THEN [s EXCEPT !.concepts[label] =
              [@ EXCEPT !.community = community_id, !.freq = 1]]
    ELSE s

\* MATCH (k:Concept {id: $node_id}) SET k.community = $community_id
set_community(s, label, community_id) ==
    IF label \in DOMAIN s.concepts
    THEN [s EXCEPT !.concepts[label].community = community_id]
    ELSE s

\* gds.louvain.write with writeProperty 'community'
louvain_write(s, partition) ==
    [s EXCEPT !.concepts =
        [l \in DOMAIN @ |-> IF l \in DOMAIN partition
                            THEN [@[l] EXCEPT !.community = partition[l]] ELSE @[l]]]

DetectorInit ==
    \E has_louvain \in BOOLEAN :
        detector = [pc |-> "session", has_louvain |-> has_louvain, failed |-> "none",
                    fallback_ran |-> FALSE, before |-> Communities(store),
                    graph |-> [nodes |-> <<>>, edges |-> {}], partition |-> EmptyFcn,
                    todo |-> <<>>, result |-> NULL]

DetectorVars == <<ingest, hist, chunker, aggregator, order, search, qa, conn>>

Return(value) == [detector EXCEPT !.pc = "done", !.result = value]

\* except Exception: return self._compute_communities_networkx()
FallBack(step) == [detector EXCEPT !.pc = "nx_graph", !.failed = step]

\* compute_communities: with self.store.driver.session()
OpenSession(ok) ==
    /\ detector.pc = "session"
    /\ detector' = IF ok THEN [detector EXCEPT !.pc = "exists"] ELSE FallBack("session")
    /\ UNCHANGED <<store, DetectorVars>>

\* compute_communities: CALL gds.graph.exists
GdsExists(ok) ==
    /\ detector.pc = "exists"
    /\ detector' = IF ok THEN [detector EXCEPT !.pc = "gds_session"] ELSE FallBack("exists")
    /\ UNCHANGED <<store, DetectorVars>>

\* _compute_communities_gds: with self.store.driver.session(), outside its try
GdsSession(ok) ==
    /\ detector.pc = "gds_session"
    /\ detector' = IF ok THEN [detector EXCEPT !.pc = "project"] ELSE FallBack("gds_session")
    /\ UNCHANGED <<store, DetectorVars>>

\* _compute_communities_gds: CALL gds.graph.project.cypher
GdsProject(ok) ==
    /\ detector.pc = "project"
    /\ IF ok
       THEN \E graph \in GraphSnapshots(store) :
                detector' = [detector EXCEPT !.pc = "louvain", !.graph = graph]
       ELSE detector' = [Return(FALSE) EXCEPT !.failed = "project"]
    /\ UNCHANGED <<store, DetectorVars>>

\* _compute_communities_gds: CALL gds.louvain.write, on the projected graph
GdsLouvain(ok) ==
    /\ detector.pc = "louvain"
    /\ IF ok
       THEN \E partition \in LouvainPartitions(detector.graph) :
                /\ store' = louvain_write(store, partition)
                /\ detector' = [detector EXCEPT !.pc = "drop", !.partition = partition]
       ELSE /\ detector' = [Return(FALSE) EXCEPT !.failed = "louvain"]
            /\ UNCHANGED store
    /\ UNCHANGED DetectorVars

\* _compute_communities_gds: CALL gds.graph.drop
GdsDrop(ok) ==
    /\ detector.pc = "drop"
    /\ detector' = IF ok THEN Return(TRUE) ELSE [Return(FALSE) EXCEPT !.failed = "drop"]
    /\ UNCHANGED <<store, DetectorVars>>

\* _compute_communities_networkx: get_graph, the graph G and its partition
NxGetGraph(ok) ==
    /\ detector.pc = "nx_graph"
    /\ IF ~ok
       THEN detector' = [Return(FALSE) EXCEPT !.fallback_ran = TRUE]
       ELSE \E graph \in GraphSnapshots(store) :
                IF graph.nodes = <<>> \/ graph.edges = {}
                THEN detector' = [Return(FALSE) EXCEPT !.fallback_ran = TRUE,
                                                       !.graph = graph]
                ELSE \E partition \in Partitions(graph, detector.has_louvain) :
                         detector' = [detector EXCEPT
                             !.pc = "nx_write", !.fallback_ran = TRUE, !.graph = graph,
                             !.partition = partition, !.todo = graph.nodes]
    /\ UNCHANGED <<store, DetectorVars>>

\* _compute_communities_networkx: one SET k.community of the write-back loop
NxWrite(ok) ==
    /\ detector.pc = "nx_write"
    /\ IF detector.todo = <<>>
       THEN detector' = Return(TRUE) /\ UNCHANGED store
       ELSE IF ok
            THEN /\ store' = set_community(store, Head(detector.todo),
                                           detector.partition[Head(detector.todo)])
                 /\ detector' = [detector EXCEPT !.todo = Tail(@)]
            ELSE detector' = Return(FALSE) /\ UNCHANGED store
    /\ UNCHANGED DetectorVars

InitCommunity ==
    /\ store \in StoresAfterIngestion
    /\ ingest = [p \in Procs |-> IdleIngest] /\ hist = InitHist
    /\ DetectorInit
    /\ chunker = NoRun /\ aggregator = NoRun /\ order = NoRun /\ search = NoRun
    /\ qa = NoRun /\ conn = NoRun

NextCommunity ==
    \/ \E ok \in BOOLEAN : OpenSession(ok)
    \/ \E ok \in BOOLEAN : GdsExists(ok)
    \/ \E ok \in BOOLEAN : GdsSession(ok)
    \/ \E ok \in BOOLEAN : GdsProject(ok)
    \/ \E ok \in BOOLEAN : GdsLouvain(ok)
    \/ \E ok \in BOOLEAN : GdsDrop(ok)
    \/ \E ok \in BOOLEAN : NxGetGraph(ok)
    \/ \E ok \in BOOLEAN : NxWrite(ok)

SpecCommunity == InitCommunity /\ [][NextCommunity]_vars

\* the run took the fallback path with connected components and returned True
ComponentsRunSucceeded ==
    /\ detector.pc = "done"
    /\ detector.result = TRUE
    /\ detector.fallback_ran
    /\ ~detector.has_louvain

\* C23: after a run of the connected-components fallback that returns True,
\* every concept of the graph snapshot carries a community label, and two
\* concepts carry the same label if and only if they lie in the same connected
\* component of the co-occurrence graph of the snapshot.
C23_ComponentLabels ==
    ComponentsRunSucceeded =>
        \A n \in Range(detector.graph.nodes) :
            /\ store.concepts[n].community # NoCommunity
            /\ \A m \in Range(detector.graph.nodes) :
                   (store.concepts[n].community = store.concepts[m].community)
                   <=> (ComponentOf(detector.graph, n) = ComponentOf(detector.graph, m))

\* three concepts in two components: x and y joined, z alone
C23_Witness ==
    /\ ComponentsRunSucceeded
    /\ Range(detector.graph.nodes) = {"x", "y", "z"}
    /\ ComponentOf(detector.graph, "x") = {"x", "y"}
    /\ ComponentOf(detector.graph, "z") = {"z"}
    /\ store.concepts["x"].community # store.concepts["z"].community

\* C24: a run of the community detector that returns True has rewritten the
\* community label of every concept, and a run that fails (returns False, at
\* whatever point, the write-back included) leaves every concept's community
\* label as it was before the run.
C24_WriteBackAllOrNothing ==
    detector.pc = "done" =>
        IF detector.result
        THEN \A l \in DOMAIN store.concepts :
                 store.concepts[l].community = detector.partition[l]
        ELSE Communities(store) = detector.before

\* C18: whenever the preferred partitioning path is unavailable or fails at any
\* of its steps (availability check, graph projection, partitioning, cleanup),
\* compute_communities has run the fallback path when it returns.
C18_FallbackOnFailure ==
    (detector.pc = "done" /\ detector.failed # "none") => detector.fallback_ran

(***************************************************************************)
(* neo4j_graph_lib.connection.Neo4jConnection: two connection objects,     *)
(* each with the driver it holds, the number of times that driver's        *)
(* close() has been called, the sessions handed out and its last call.     *)
(***************************************************************************)
Conns == {"k1", "k2"}
DRIVER == "driver"

NoCall == [op |-> "none", had_driver |-> FALSE, outcome |-> "none"]

ConnInit ==
    conn = [c \in Conns |-> [state |-> "new", driver |-> NULL, released |-> 0,
                             sessions |-> 0, calls |-> 0, last |-> NoCall]]

ConnVars == <<IngestVars, chunker, aggregator, order, search, qa, detector>>

DriverKept(driver) == driver

\* self._driver = None
DriverCleared(driver) == NULL

Called(c, op, outcome) ==
    [conn[c] EXCEPT !.calls = @ + 1,
                    !.last = [op |-> op, had_driver |-> conn[c].driver # NULL,
                              outcome |-> outcome]]

\* __init__ and _connect: a driver that verifies, or ConnectionError and no object
Connect(c, ok) ==
    /\ conn[c].state = "new"
    /\ conn' = [conn EXCEPT ![c] =
           IF ok THEN [conn[c] EXCEPT !.state = "ready", !.driver = DRIVER]
           ELSE [conn[c] EXCEPT !.state = "failed"]]
    /\ UNCHANGED ConnVars

\* get_session
GetSession(c) ==
    /\ conn[c].state = "ready" /\ conn[c].calls < MaxCalls
    /\ conn' = [conn EXCEPT ![c] =
           IF conn[c].driver = NULL THEN Called(c, "get_session", "RuntimeError")
           ELSE [Called(c, "get_session", "session") EXCEPT !.sessions = @ + 1]]
    /\ UNCHANGED ConnVars

\* close, also called by __exit__
Close(c) ==
    /\ conn[c].state = "ready" /\ conn[c].calls < MaxCalls
    /\ conn' = [conn EXCEPT ![c] =
           IF conn[c].driver # NULL
           THEN [Called(c, "close", "ok") EXCEPT !.released = @ + 1,
                                                 !.driver = DriverCleared(@)]
           ELSE Called(c, "close", "ok")]
    /\ UNCHANGED ConnVars

\* test_connection
TestConnection(c, ok) ==
    /\ conn[c].state = "ready" /\ conn[c].calls < MaxCalls
    /\ conn' = [conn EXCEPT ![c] =
           Called(c, "test_connection",
                  IF conn[c].driver # NULL /\ ok THEN "true" ELSE "false")]
    /\ UNCHANGED ConnVars

InitConn ==
    /\ IngestInit /\ ConnInit
    /\ chunker = NoRun /\ aggregator = NoRun /\ order = NoRun /\ search = NoRun
    /\ qa = NoRun /\ detector = NoRun

NextConn ==
    \/ \E c \in Conns, ok \in BOOLEAN : Connect(c, ok)
    \/ \E c \in Conns : GetSession(c)
    \/ \E c \in Conns : Close(c)
    \/ \E c \in Conns, ok \in BOOLEAN : TestConnection(c, ok)

SpecConn == InitConn /\ [][NextConn]_vars

BumpCalls(ops) == SelectSeq(ops, LAMBDA o : o.op = "bump_cooccurrence")

\* C20: within one ingestion the store is asked to update the CoOccurs edge of
\* an unordered concept pair at most once: no two of the bump_cooccurrence
\* calls an ingestion still has to make name the same unordered pair.
C20_OneWritePerPair ==
    \A p \in Procs :
        ingest[p].pc = "process" =>
            LET calls == BumpCalls(ingest[p].todo)
            IN \A i, j \in 1..Len(calls) :
                   Unordered(calls[i].concept1, calls[i].concept2)
                       = Unordered(calls[j].concept1, calls[j].concept2) => i = j

(***************************************************************************)
(* Ingestion with failures inside _process_content: embed_chunks,          *)
(* extract_concepts or a store call raises after the Document node was     *)
(* written.  Neither _process_content nor its callers undo a write.        *)
(***************************************************************************)
PROCESSING_FAILED == "Processing failed"

\* the exception leaves _process_content and ingest_file; the endpoint reports it
ProcessFails(p) ==
    /\ ingest[p].pc = "process"
    /\ Finish(p, ErrorResult(PROCESSING_FAILED))
    /\ UNCHANGED <<store, hist, PureVars>>

NextFail == Next \/ \E p \in Procs : ProcessFails(p)

SpecFail == Init /\ [][NextFail]_vars

\* everything the ingestion of request r derives from its document is stored
DerivedPresent(s, r) ==
    \A o \in Range(ProcessOps(r.text, DocId(r))) :
        CASE o.op = "upsert_chunk_with_embedding" ->
                 o.chunk_id \in DOMAIN s.chunks /\ <<o.doc_id, o.chunk_id>> \in s.has_chunk
          [] o.op = "upsert_concept" -> o.label \in DOMAIN s.concepts
          [] o.op = "link_mentions" -> <<o.chunk_id, o.label>> \in s.mentions
          [] o.op = "bump_cooccurrence" -> EdgesBetween(s, o.concept1, o.concept2) # {}

\* no other ingestion is at work on the document of p's request
AloneOnDocument(p) ==
    \/ ~InFlight(Other(p))
    \/ DocId(ingest[Other(p)].req) # DocId(ingest[p].req)

\* C21: once an ingestion has ended, whether with success or with a failure
\* at any point (a failure inside _process_content after the Document node was
\* upserted included) after having written, and no other ingestion is at work
\* on the same document, the store holds either its document together with all of the chunks,
\* concepts, Mentions edges and CoOccurs edges derived from it, or no Document
\* node for it.
C21_AllOrNothing ==
    \A p \in Procs :
        (ingest[p].pc = "done" /\ hist.writes[p] > 0 /\ AloneOnDocument(p)) =>
            \/ DocId(ingest[p].req) \notin DOMAIN store.documents
            \/ DerivedPresent(store, ingest[p].req)

(***************************************************************************)
(* compute_communities running beside ingestions: the store calls of two   *)
(* file ingestions and the steps of one detector run, in any interleaving. *)
(***************************************************************************)
BesideRequests ==
    {r \in FileRequests :
        /\ r.name = "a.txt"
        /\ r.text = <<"x", "y", "x", "y">>}

InitBeside ==
    /\ IngestInit /\ DetectorInit
    /\ chunker = NoRun /\ aggregator = NoRun /\ order = NoRun /\ search = NoRun
    /\ qa = NoRun /\ conn = NoRun

NextBeside ==
    \/ \E p \in Procs, r \in BesideRequests : Submit(p, r)
    \/ \E p \in Procs : CheckBudget(p)
    \/ \E p \in Procs : UpsertDocument(p)
    \/ \E p \in Procs : StoreOp(p)
    \/ NextCommunity

SpecBeside == InitBeside /\ [][NextBeside]_vars

\* p makes its next store call in this step, a bump_cooccurrence
BumpStep(p) ==
    /\ ingest[p].pc = "process"
    /\ Head(ingest[p].todo).op = "bump_cooccurrence"
    /\ ingest'[p] # ingest[p]

BumpedPair(p) == Unordered(Head(ingest[p].todo).concept1, Head(ingest[p].todo).concept2)

\* C22: in every step of ingestions, re-ingestions and community-detector
\* runs, every concept stays and its frequency does not decrease, every
\* CoOccurs edge stays and its weight does not decrease, and a step in which
\* an ingestion writes a pair it emitted strictly increases the weight stored
\* for that pair.
C22_AccumulatorsMonotone ==
    [][/\ \A l \in DOMAIN store.concepts :
              /\ l \in DOMAIN store'.concepts
              /\ store'.concepts[l].freq >= store.concepts[l].freq
       /\ \A e \in DOMAIN store.co_occurs :
              /\ e \in DOMAIN store'.co_occurs
              /\ store'.co_occurs[e] >= store.co_occurs[e]
       /\ \A p \in Procs :
              BumpStep(p) =>
                  StoredWeight(store', BumpedPair(p)) > StoredWeight(store, BumpedPair(p))
      ]_vars

\* a re-ingestion and a detector run have both ended; the pair {x, y}, emitted
\* four times, holds four increments and both concepts carry a community
C22_Witness ==
    /\ \A p \in Procs : Succeeded(p)
    /\ \E q \in Procs : Reingests(q)
    /\ detector.pc = "done" /\ detector.result
    /\ StoredWeight(store, {"x", "y"}) = 4 * WeightScale
    /\ store.concepts["x"].freq = 4
    /\ store.concepts["x"].community # NoCommunity

\* everything the store holds but the community labels
WithoutCommunities(s) ==
    [documents |-> s.documents, chunks |-> s.chunks, has_chunk |-> s.has_chunk,
     mentions |-> s.mentions, co_occurs |-> s.co_occurs,
     concepts |-> [l \in DOMAIN s.concepts |->
                      [id |-> s.concepts[l].id, lemma |-> s.concepts[l].lemma,
                       freq |-> s.concepts[l].freq,
                       embedding |-> s.concepts[l].embedding]]]

\* C26: a step of a community-detector run, taken at any point beside ongoing
\* ingestions, changes nothing in the store but community labels (no Document,
\* Chunk, concept frequency, Mentions edge or CoOccurs weight), and at every
\* point the stored frequencies and weights are the sums of the increments the
\* ingestions have issued: the run loses none.
C26_DetectorBesideIngestion ==
    /\ [][detector' # detector =>
             WithoutCommunities(store') = WithoutCommunities(store)]_vars
    /\ [](/\ DOMAIN store.concepts = DOMAIN hist.issued_freq
          /\ \A l \in DOMAIN store.concepts :
                 store.concepts[l].freq = hist.issued_freq[l]
          /\ \A pair \in DOMAIN hist.issued_weight :
                 StoredWeight(store, pair) = hist.issued_weight[pair])

\* the write-back loop has labelled one concept and not yet the other while an
\* ingestion is between two of its store calls, the concurrent one having
\* written too
C26_Witness ==
    /\ detector.pc = "nx_write"
    /\ Len(detector.todo) = 1
    /\ \A p \in Procs : ingest[p].pc = "process" /\ hist.writes[p] >= 4
    /\ \E l \in DOMAIN store.concepts : store.concepts[l].community # NoCommunity
    /\ \E l \in DOMAIN store.concepts : store.concepts[l].freq = 4

\* C25: however two ingestions interleave, the bytes stored exceed the ceiling
\* by no more than the size of the ingestions that had passed check_budget and
\* not yet written their document when the other's check was made.
C25_SoftBudgetBound ==
    TotalBytes(store) <= BudgetBytes + hist.raced["p1"] + hist.raced["p2"]

\* C29: when ingestions run one at a time, the bytes stored do not exceed the
\* ceiling after any of them, a re-ingestion of an existing document id with
\* another byte size included.
C29_SequentialBudget ==
    order.pc \in {"second", "done"} =>
        /\ TotalBytes(order.ab) <= BudgetBytes
        /\ TotalBytes(order.ba) <= BudgetBytes

\* the Chunk nodes of the store that belong to the document
OwnedChunks(s, doc_id) == {c \in DOMAIN s.chunks : s.chunks[c].docId = doc_id}

\* C30: after a document id has been re-ingested with different content, the
\* Chunk nodes owned by the document are exactly the chunks of the new content,
\* with their text, and the Mentions edges from the document's chunks are
\* exactly those of the new content.
C30_ReingestReplaces ==
    (/\ order.pc = "done" /\ order.accepted
     /\ DocId(order.A) = DocId(order.B)
     /\ order.A.text # order.B.text) =>
        LET d == DocId(order.B)
            chunks == ProcessChunks(order.B.text)
            new == Range(ChunkOps(chunks, d))
        IN /\ OwnedChunks(order.ab, d) = {o.chunk_id : o \in new}
           /\ \A o \in new : order.ab.chunks[o.chunk_id].text = o.text
           /\ {m \in order.ab.mentions : m[1] \in OwnedChunks(order.ab, d)}
                  = {<<o.chunk_id, o.label>> : o \in Range(MentionOps(chunks, d))}

====
